---------------------------- MODULE Spec2Model ----------------------------
(***************************************************************************)
(* The submission pipeline of appinsights-rs: the in-memory channel facade *)
(* (channel/memory.rs), its supervisor task, the worker state machine and  *)
(* the transmitter's interpretation of server responses (transmitter.rs).  *)
(***************************************************************************)
EXTENDS Integers, Sequences, FiniteSets

\* ------------------------------------------------------------------ bounds
MaxEnv == 2        \* envelopes ever passed to send
MaxCmds == 2       \* commands waiting in one command channel
MaxPanics == 2     \* worker panics in one run
MaxErrors == 1     \* entries of a server status body's error list
ScheduleLen == 1   \* delays of the retry schedule
TxMaxLen == 3      \* envelopes of a batch handed to Transmitter::send on its own
TxMaxErrors == 2   \* entries of the error list in that call's status body
QMaxPush == 4      \* envelopes pushed to the queue looked at on its own
QMaxDrains == 3    \* drains of that queue

Envelopes == 1..MaxEnv

\* ------------------------------------------------------------------- state
VARIABLES
    items,            \* InMemoryChannel.items: the SegQueue, oldest first
    nextEnv,          \* the next envelope a producer creates
    command_sender,   \* InMemoryChannel.command_sender is Some
    shutdown_sender,  \* InMemoryChannel.shutdown_sender is Some
    join,             \* InMemoryChannel.join is Some
    fpc,              \* where the facade's caller is: ready, signal, command, join, dropped
    fcmd,             \* the command of the shutdown call in progress
    oneshot,          \* the shutdown one-shot: empty, sent, closed, taken
    mutexChan,        \* the channel whose sender the mutex holds
    recvChan,         \* the channel whose receiver is alive (0: none)
    chanGen,          \* channels minted so far
    cmds,             \* the commands buffered in channel recvChan
    sup,              \* the supervisor task: spawn, await, check, swap, done
    wstate,           \* the worker: none, new, WaitNextCycle, Submitting, WaitingRetry, Terminated, Panicked
    mode,             \* the worker's continuation: cycle, closing, final
    batch,            \* the batch the worker holds
    attempt,          \* k of Submitting(batch, k)
    retryIdx,         \* delays of the retry schedule consumed
    deadline,         \* what the worker's timer waits for: none, interval, backoff, until
    posts,            \* the bodies of the HTTP requests started, in order
    inflight,         \* requests started whose answer has not arrived yet
    discarded,        \* envelopes the pipeline has let go of
    exhausted,        \* envelopes dropped because the retry schedule was exhausted
    panics,           \* worker panics so far
    scn,              \* the scenario being observed (history variable)
    tx                \* one call looked at on its own (Transmitter::send, retain_retry_items,
                      \* Envelope::from): input and result

vars == <<items, nextEnv, command_sender, shutdown_sender, join, fpc, fcmd, oneshot,
          mutexChan, recvChan, chanGen, cmds, sup, wstate, mode, batch, attempt,
          retryIdx, deadline, posts, inflight, discarded, exhausted, panics, scn, tx>>

pipelineVars == <<items, nextEnv, command_sender, shutdown_sender, join, fpc, fcmd, oneshot,
                  mutexChan, recvChan, chanGen, cmds, sup, wstate, mode, batch, attempt,
                  retryIdx, deadline, posts, inflight, discarded, exhausted, panics, scn>>

facadeVars == <<command_sender, shutdown_sender, join, fpc, fcmd>>
chanVars == <<mutexChan, recvChan, chanGen, cmds>>
workerVars == <<wstate, mode, batch, attempt, retryIdx, deadline>>
ghostVars == <<discarded, exhausted>>

\* ----------------------------------------------------------------- helpers
Range(s) == {s[i] : i \in 1..Len(s)}

IsPrefix(s, t) == Len(s) <= Len(t) /\ SubSeq(t, 1, Len(s)) = s

NoScn == [kind |-> "none", q |-> <<>>, base |-> 0]

\* No call is being looked at on its own.
NoTx == [phase |-> "none"]

\* The worker waits for its next cycle and nothing is on its way to it.
Idle == wstate = "WaitNextCycle" /\ cmds = <<>> /\ mutexChan = recvChan

\* ------------------------------------------------------------- transmitter
\* What the server answers to one POST. status 0 stands for a failure below
\* HTTP (connection, timeout, body read). parse: the body is a status document;
\* allok: itemsAccepted = itemsReceived; errors: its error list, indices from 0;
\* retryAfter: the Retry-After header is absent, a valid RFC 2822 date or not one.
ErrorItems == [index : 0..MaxEnv, statusCode : {400, 500}]

ErrorLists == UNION {[1..n -> ErrorItems] : n \in 0..MaxErrors}

NoBody == [parse |-> FALSE, allok |-> FALSE, errors |-> <<>>]

Bodies == {NoBody} \cup [parse : {TRUE}, allok : {FALSE}, errors : ErrorLists]

Resp(status, body, retryAfter) ==
    [status |-> status, parse |-> body.parse, allok |-> body.allok,
     errors |-> body.errors, retryAfter |-> retryAfter]

Responses ==
    {Resp(st, NoBody, "none") : st \in {0, 200, 400, 503}}
    \cup {Resp(206, [parse |-> TRUE, allok |-> TRUE, errors |-> <<>>], "none")}
    \cup {Resp(st, b, "none") : st \in {206, 500}, b \in Bodies}
    \cup {Resp(st, b, ra) : st \in {408, 429}, b \in Bodies, ra \in {"none", "valid", "malformed"}}

can_retry_item(statusCode) == statusCode \in {206, 408, 500, 503, 429}

RemoveAt(s, i) == SubSeq(s, 1, i - 1) \o SubSeq(s, i + 1, Len(s))

\* The loop of retain_retry_items over the retryable errors, in the order the
\* server lists them: Vec::remove at (index - retry_items.len()), which panics
\* when the subtraction underflows or the position is past the end.
RECURSIVE RetainLoop(_, _, _)
RetainLoop(its, errs, retry_items) ==
    IF errs = <<>> THEN [panic |-> FALSE, items |-> retry_items]
    ELSE LET error == Head(errs)
             at == error.index - Len(retry_items)
         IN IF ~can_retry_item(error.statusCode)
              THEN RetainLoop(its, Tail(errs), retry_items)
            ELSE IF at < 0 \/ at >= Len(its)
              THEN [panic |-> TRUE, items |-> <<>>]
            ELSE RetainLoop(RemoveAt(its, at + 1), Tail(errs),
                            Append(retry_items, its[at + 1]))

retain_retry_items(its, content) == RetainLoop(its, content.errors, <<>>)

Outcome(kind, its) == [kind |-> kind, items |-> its]

\* The arms of Transmitter::send's match on the status. Faulty variants of an
\* arm precede it.

\* Faulty variant of OnOk: 200 asks for the batch again.
OnOkRetries(its, r) == Outcome("Retry", its)

\* StatusCode::OK
OnOk(its, r) == Outcome("Success", <<>>)

\* StatusCode::PARTIAL_CONTENT: a body that is not a status document leaves
\* send through the ? operator.
OnPartialContent(its, r) ==
    IF ~r.parse THEN Outcome("Err", <<>>)
    ELSE IF r.allok THEN Outcome("Success", <<>>)
    ELSE LET kept == retain_retry_items(its, r)
         IN IF kept.panic THEN Outcome("Panic", <<>>)
            ELSE IF kept.items = <<>> THEN Outcome("NoRetry", <<>>)
            ELSE Outcome("Retry", kept.items)

\* StatusCode::TOO_MANY_REQUESTS | StatusCode::REQUEST_TIMEOUT: a Retry-After
\* that is not an RFC 2822 date leaves send through the ? operator.
OnThrottle(its, r) ==
    LET kept == IF r.parse THEN retain_retry_items(its, r)
                ELSE [panic |-> FALSE, items |-> its]
    IN IF kept.panic THEN Outcome("Panic", <<>>)
       ELSE IF r.retryAfter = "malformed" THEN Outcome("Err", <<>>)
       ELSE IF r.retryAfter = "valid" THEN Outcome("Throttled", kept.items)
       ELSE Outcome("Retry", kept.items)

\* Faulty variant of OnServiceUnavailable: the body is read as the 500 arm reads it.
OnServiceUnavailableFilters(its, r) ==
    IF r.parse /\ ~retain_retry_items(its, r).panic
      THEN Outcome("Retry", retain_retry_items(its, r).items)
      ELSE Outcome("Retry", its)

\* StatusCode::SERVICE_UNAVAILABLE
OnServiceUnavailable(its, r) == Outcome("Retry", its)

\* Faulty variant of OnServerError: a body that does not parse ends the batch.
OnServerErrorGivesUp(its, r) ==
    IF r.parse
      THEN LET kept == retain_retry_items(its, r)
           IN IF kept.panic THEN Outcome("Panic", <<>>)
              ELSE IF kept.items = <<>> THEN Outcome("NoRetry", <<>>)
              ELSE Outcome("Retry", kept.items)
      ELSE Outcome("NoRetry", <<>>)

\* StatusCode::INTERNAL_SERVER_ERROR
OnServerError(its, r) ==
    IF r.parse
      THEN LET kept == retain_retry_items(its, r)
           IN IF kept.panic THEN Outcome("Panic", <<>>)
              ELSE IF kept.items = <<>> THEN Outcome("NoRetry", <<>>)
              ELSE Outcome("Retry", kept.items)
      ELSE Outcome("Retry", its)

\* Any other status
OnOther(its, r) == Outcome("NoRetry", <<>>)

\* Faulty variant of TransmitterSend: a failure below HTTP is swallowed and
\* reported as NoRetry.
TransmitterSendSwallowsError(its, r) ==
    IF r.status = 0 THEN Outcome("NoRetry", <<>>)
    ELSE IF r.status = 200 THEN OnOk(its, r)
    ELSE IF r.status = 206 THEN OnPartialContent(its, r)
    ELSE IF r.status \in {429, 408} THEN OnThrottle(its, r)
    ELSE IF r.status = 503 THEN OnServiceUnavailable(its, r)
    ELSE IF r.status = 500 THEN OnServerError(its, r)
    ELSE OnOther(its, r)

\* Transmitter::send: the POST fails below HTTP (status 0) and send returns
\* the error, or the match on the status picks its arm.
TransmitterSend(its, r) ==
    IF r.status = 0 THEN Outcome("Err", <<>>)
    ELSE IF r.status = 200 THEN OnOk(its, r)
    ELSE IF r.status = 206 THEN OnPartialContent(its, r)
    ELSE IF r.status \in {429, 408} THEN OnThrottle(its, r)
    ELSE IF r.status = 503 THEN OnServiceUnavailable(its, r)
    ELSE IF r.status = 500 THEN OnServerError(its, r)
    ELSE OnOther(its, r)

\* -------------------------------------------------------------------- Init
\* InMemoryChannel::new: the queue, the first command channel with its sender
\* under the mutex, the one-shot, and the supervisor task spawned.
InitPipeline ==
    /\ items = <<>>
    /\ nextEnv = 1
    /\ command_sender = TRUE
    /\ shutdown_sender = TRUE
    /\ join = TRUE
    /\ fpc = "ready"
    /\ fcmd = "none"
    /\ oneshot = "empty"
    /\ mutexChan = 1
    /\ recvChan = 1
    /\ chanGen = 1
    /\ cmds = <<>>
    /\ sup = "spawn"
    /\ wstate = "none"
    /\ mode = "cycle"
    /\ batch = <<>>
    /\ attempt = 0
    /\ retryIdx = 0
    /\ deadline = "none"
    /\ posts = <<>>
    /\ inflight = 0
    /\ discarded = {}
    /\ exhausted = {}
    /\ panics = 0
    /\ scn = NoScn

Init == InitPipeline /\ tx = NoTx

\* ------------------------------------------------------------------ facade
\* send_command: unbounded_send on the sender the mutex holds; it fails, with a
\* warning only, when that channel's receiver is gone.
send_command(command) ==
    IF mutexChan = recvChan THEN Append(cmds, command) ELSE cmds

\* Faulty variant of Send: the envelope is pushed twice.
SendTwice ==
    /\ fpc = "ready"
    /\ nextEnv <= MaxEnv
    /\ items' = Append(Append(items, nextEnv), nextEnv)
    /\ nextEnv' = nextEnv + 1
    /\ UNCHANGED <<tx, inflight, facadeVars, oneshot, chanVars, sup, workerVars, posts, ghostVars,
                   panics, scn>>

\* Faulty variant of Send: the envelope is pushed at the head of the queue.
SendFront ==
    /\ fpc = "ready"
    /\ nextEnv <= MaxEnv
    /\ items' = <<nextEnv>> \o items
    /\ nextEnv' = nextEnv + 1
    /\ UNCHANGED <<tx, inflight, facadeVars, oneshot, chanVars, sup, workerVars, posts, ghostVars,
                   panics, scn>>

\* Faulty variant of Send: the push replaces what the queue held.
SendOverwrites ==
    /\ fpc = "ready"
    /\ nextEnv <= MaxEnv
    /\ items' = <<nextEnv>>
    /\ nextEnv' = nextEnv + 1
    /\ UNCHANGED <<tx, inflight, facadeVars, oneshot, chanVars, sup, workerVars, posts, ghostVars,
                   panics, scn>>

\* InMemoryChannel::send: push to the queue, whatever the channel's state.
Send ==
    /\ fpc = "ready"
    /\ nextEnv <= MaxEnv
    /\ items' = Append(items, nextEnv)
    /\ nextEnv' = nextEnv + 1
    /\ UNCHANGED <<tx, inflight, facadeVars, oneshot, chanVars, sup, workerVars, posts, ghostVars,
                   panics, scn>>

\* Faulty variant of Flush: no command is sent.
FlushNoCommand ==
    /\ fpc = "ready"
    /\ Len(cmds) < MaxCmds
    /\ scn' = IF command_sender /\ wstate = "WaitNextCycle" /\ mutexChan = recvChan
                 /\ items # <<>>
              THEN [kind |-> "flush", q |-> items, base |-> Len(posts)]
              ELSE NoScn
    /\ UNCHANGED <<tx, inflight, items, nextEnv, facadeVars, oneshot, chanVars, sup, workerVars, posts,
                   ghostVars, panics>>

\* InMemoryChannel::flush: Flush on the command channel while the facade still
\* holds its sender.
Flush ==
    /\ fpc = "ready"
    /\ Len(cmds) < MaxCmds
    /\ cmds' = IF command_sender THEN send_command("Flush") ELSE cmds
    /\ scn' = IF command_sender /\ wstate = "WaitNextCycle" /\ mutexChan = recvChan
                 /\ items # <<>>
              THEN [kind |-> "flush", q |-> items, base |-> Len(posts)]
              ELSE NoScn
    /\ UNCHANGED <<tx, inflight, items, nextEnv, facadeVars, oneshot, mutexChan, recvChan, chanGen, sup,
                   workerVars, posts, ghostVars, panics>>

\* InMemoryChannel::shutdown, first step: take the shutdown sender and fire
\* the one-shot.
ShutdownSignal(command) ==
    /\ fpc = "ready"
    /\ fpc' = "command"
    /\ fcmd' = command
    /\ shutdown_sender' = FALSE
    /\ oneshot' = IF shutdown_sender /\ oneshot = "empty" THEN "sent" ELSE oneshot
    /\ scn' = IF shutdown_sender /\ command_sender /\ join /\ Idle
              THEN [kind |-> command, q |-> items, base |-> Len(posts)]
              ELSE NoScn
    /\ UNCHANGED <<tx, inflight, items, nextEnv, command_sender, join, chanVars, sup, workerVars,
                   posts, ghostVars, panics>>

\* InMemoryChannel::close
Close == ShutdownSignal("Close")

\* InMemoryChannel::terminate
Terminate == ShutdownSignal("Terminate")

\* Faulty variants of ShutdownCommand: the command sent is always Terminate, is
\* always Close, or the command sender is borrowed instead of taken.
ShutdownCommandTerminates ==
    /\ fpc = "command"
    /\ fpc' = "join"
    /\ command_sender' = FALSE
    /\ cmds' = IF command_sender THEN send_command("Terminate") ELSE cmds
    /\ UNCHANGED <<tx, inflight, items, nextEnv, shutdown_sender, join, fcmd, oneshot, mutexChan,
                   recvChan, chanGen, sup, workerVars, posts, ghostVars, panics, scn>>

ShutdownCommandCloses ==
    /\ fpc = "command"
    /\ fpc' = "join"
    /\ command_sender' = FALSE
    /\ cmds' = IF command_sender THEN send_command("Close") ELSE cmds
    /\ UNCHANGED <<tx, inflight, items, nextEnv, shutdown_sender, join, fcmd, oneshot, mutexChan,
                   recvChan, chanGen, sup, workerVars, posts, ghostVars, panics, scn>>

ShutdownCommandKeepsSender ==
    /\ fpc = "command"
    /\ fpc' = "join"
    /\ cmds' = IF command_sender THEN send_command(fcmd) ELSE cmds
    /\ UNCHANGED <<tx, inflight, items, nextEnv, command_sender, shutdown_sender, join, fcmd, oneshot,
                   mutexChan, recvChan, chanGen, sup, workerVars, posts, ghostVars, panics,
                   scn>>

\* InMemoryChannel::shutdown, second step: take the command sender and send
\* the command on it.
ShutdownCommand ==
    /\ fpc = "command"
    /\ fpc' = "join"
    /\ command_sender' = FALSE
    /\ cmds' = IF command_sender THEN send_command(fcmd) ELSE cmds
    /\ UNCHANGED <<tx, inflight, items, nextEnv, shutdown_sender, join, fcmd, oneshot, mutexChan,
                   recvChan, chanGen, sup, workerVars, posts, ghostVars, panics, scn>>

\* Faulty variant of ShutdownJoin: the call returns without awaiting the supervisor.
ShutdownJoinNoAwait ==
    /\ fpc = "join"
    /\ fpc' = "ready"
    /\ fcmd' = "none"
    /\ join' = FALSE
    /\ UNCHANGED <<tx, inflight, items, nextEnv, command_sender, shutdown_sender, oneshot, chanVars,
                   sup, workerVars, posts, ghostVars, panics, scn>>

\* InMemoryChannel::shutdown, third step: take the join handle and await the
\* supervisor task; the call returns.
ShutdownJoin ==
    /\ fpc = "join"
    /\ join => sup = "done"
    /\ fpc' = "ready"
    /\ fcmd' = "none"
    /\ join' = FALSE
    /\ UNCHANGED <<tx, inflight, items, nextEnv, command_sender, shutdown_sender, oneshot, chanVars,
                   sup, workerVars, posts, ghostVars, panics, scn>>

\* The facade is dropped: its three Options are dropped with it. The
\* supervisor task keeps its own clone of the Arc<Mutex<sender>> and a dropped
\* JoinHandle detaches the task.
Drop ==
    /\ fpc = "ready"
    /\ fpc' = "dropped"
    /\ command_sender' = FALSE
    /\ shutdown_sender' = FALSE
    /\ join' = FALSE
    /\ oneshot' = IF shutdown_sender /\ oneshot = "empty" THEN "closed" ELSE oneshot
    /\ scn' = IF command_sender /\ Idle
              THEN [kind |-> "drop", q |-> items, base |-> Len(posts)]
              ELSE NoScn
    /\ UNCHANGED <<tx, inflight, items, nextEnv, fcmd, chanVars, sup, workerVars, posts, ghostVars,
                   panics>>

\* -------------------------------------------------------------- supervisor
\* tokio::spawn(inner_task): the worker task exists.
SupSpawn ==
    /\ sup = "spawn"
    /\ sup' = "await"
    /\ wstate' = "new"
    /\ UNCHANGED <<tx, inflight, items, nextEnv, facadeVars, oneshot, chanVars, mode, batch, attempt,
                   retryIdx, deadline, posts, ghostVars, panics, scn>>

\* Faulty variant of SupJoinOk: a worker that ended cleanly is restarted like
\* one that failed.
SupJoinOkRestarts ==
    /\ sup = "await"
    /\ wstate = "Terminated"
    /\ sup' = "swap"
    /\ wstate' = "none"
    /\ UNCHANGED <<tx, inflight, items, nextEnv, facadeVars, oneshot, chanVars, mode, batch, attempt,
                   retryIdx, deadline, posts, ghostVars, panics, scn>>

\* The worker task ended Ok: the supervisor leaves its loop.
SupJoinOk ==
    /\ sup = "await"
    /\ wstate = "Terminated"
    /\ sup' = "done"
    /\ wstate' = "none"
    /\ UNCHANGED <<tx, inflight, items, nextEnv, facadeVars, oneshot, chanVars, mode, batch, attempt,
                   retryIdx, deadline, posts, ghostVars, panics, scn>>

\* Faulty variant of SupCheck: a failed worker ends the supervisor, shutdown or not.
SupCheckNoRestart ==
    /\ sup = "await"
    /\ wstate = "Panicked"
    /\ wstate' = "none"
    /\ sup' = "done"
    /\ UNCHANGED <<tx, inflight, items, nextEnv, facadeVars, oneshot, chanVars, mode, batch, attempt,
                   retryIdx, deadline, posts, ghostVars, panics, scn>>

\* Faulty variant of SupCheck: the supervisor goes on to restart without
\* awaiting the end of the worker task.
SupCheckNoAwait ==
    /\ sup = "await"
    /\ sup' = "swap"
    /\ UNCHANGED <<tx, inflight, items, nextEnv, facadeVars, oneshot, chanVars, workerVars, posts,
                   ghostVars, panics, scn>>

\* Faulty variant of SupCheck: the one-shot is not polled and a failed worker
\* is always restarted.
SupCheckAlwaysRestarts ==
    /\ sup = "await"
    /\ wstate = "Panicked"
    /\ wstate' = "none"
    /\ sup' = "swap"
    /\ UNCHANGED <<tx, inflight, items, nextEnv, facadeVars, oneshot, chanVars, mode, batch,
                   attempt, retryIdx, deadline, posts, ghostVars, panics, scn>>

\* The worker task ended Err: the supervisor polls the one-shot and leaves its
\* loop when the shutdown was signalled, else goes on to restart the worker.
SupCheck ==
    /\ sup = "await"
    /\ wstate = "Panicked"
    /\ wstate' = "none"
    /\ IF oneshot = "sent"
         THEN sup' = "done" /\ oneshot' = "taken"
         ELSE sup' = "swap" /\ oneshot' = oneshot
    /\ UNCHANGED <<tx, inflight, items, nextEnv, facadeVars, chanVars, mode, batch, attempt, retryIdx,
                   deadline, posts, ghostVars, panics, scn>>

\* Faulty variant of SupSwap: the sender under the mutex is not replaced.
SupSwapKeepsSender ==
    /\ sup = "swap"
    /\ sup' = "spawn"
    /\ chanGen' = chanGen + 1
    /\ recvChan' = chanGen + 1
    /\ cmds' = <<>>
    /\ UNCHANGED <<tx, inflight, items, nextEnv, facadeVars, oneshot, mutexChan, workerVars,
                   posts, ghostVars, panics, scn>>

\* A new command channel: its sender replaces the one under the mutex, its
\* receiver is the next worker's.
SupSwap ==
    /\ sup = "swap"
    /\ sup' = "spawn"
    /\ chanGen' = chanGen + 1
    /\ mutexChan' = chanGen + 1
    /\ recvChan' = chanGen + 1
    /\ cmds' = <<>>
    /\ UNCHANGED <<tx, inflight, items, nextEnv, facadeVars, oneshot, workerVars, posts, ghostVars,
                   panics, scn>>

\* ------------------------------------------------------------------ worker
\* The worker task ends: its command receiver is dropped with it.
ReceiverDropped ==
    /\ recvChan' = 0
    /\ cmds' = <<>>
    /\ UNCHANGED <<mutexChan, chanGen>>

\* Worker::new(Transmitter::new(..), ..) in the spawned task: the worker
\* starts its first cycle, or the client builder's unwrap panics.
WorkerStart ==
    /\ wstate = "new"
    /\ \/ /\ wstate' = "WaitNextCycle"
          /\ mode' = "cycle"
          /\ batch' = <<>>
          /\ attempt' = 0
          /\ retryIdx' = 0
          /\ deadline' = "interval"
          /\ UNCHANGED <<chanVars, panics>>
       \/ /\ panics < MaxPanics
          /\ panics' = panics + 1
          /\ wstate' = "Panicked"
          /\ ReceiverDropped
          /\ UNCHANGED <<mode, batch, attempt, retryIdx, deadline>>
    /\ UNCHANGED <<tx, inflight, items, nextEnv, facadeVars, oneshot, sup, posts, ghostVars, scn>>

\* drain_all, then Submitting(batch, 0) in mode m: the POST is started. An
\* empty drain re-arms the cycle timer instead.
DrainAndSubmit(m) ==
    IF items = <<>>
      THEN /\ wstate' = "WaitNextCycle"
           /\ deadline' = "interval"
           /\ UNCHANGED <<items, mode, batch, attempt, posts>>
      ELSE /\ wstate' = "Submitting"
           /\ mode' = m
           /\ batch' = items
           /\ items' = <<>>
           /\ attempt' = 0
           /\ deadline' = "none"
           /\ posts' = Append(posts, items)

\* Terminated: the worker's run returns.
Stop ==
    /\ wstate' = "Terminated"
    /\ batch' = <<>>
    /\ deadline' = "none"
    /\ ReceiverDropped
    /\ UNCHANGED <<mode, attempt>>

\* WaitNextCycle, the timer fires.
CycleTimer ==
    /\ wstate = "WaitNextCycle"
    /\ DrainAndSubmit("cycle")
    /\ scn' = IF scn.kind = "drop" THEN scn
              ELSE IF items # <<>> /\ fpc = "ready" /\ command_sender
                THEN [kind |-> "tick", q |-> items, base |-> Len(posts)]
              ELSE NoScn
    /\ UNCHANGED <<tx, nextEnv, facadeVars, oneshot, chanVars, sup, retryIdx, ghostVars,
                   panics>>
    /\ inflight' = inflight + (Len(posts') - Len(posts))

\* WaitNextCycle, Flush is received.
CycleFlush ==
    /\ wstate = "WaitNextCycle"
    /\ cmds # <<>> /\ Head(cmds) = "Flush"
    /\ cmds' = Tail(cmds)
    /\ DrainAndSubmit("cycle")
    /\ UNCHANGED <<tx, nextEnv, facadeVars, oneshot, mutexChan, recvChan, chanGen, sup,
                   retryIdx, ghostVars, panics, scn>>
    /\ inflight' = inflight + (Len(posts') - Len(posts))

\* WaitNextCycle, Close is received: drain and submit with continuation
\* Closing, or Terminated when the queue is empty.
CycleClose ==
    /\ wstate = "WaitNextCycle"
    /\ cmds # <<>> /\ Head(cmds) = "Close"
    /\ IF items = <<>>
         THEN Stop /\ UNCHANGED <<items, posts>>
         ELSE DrainAndSubmit("closing") /\ cmds' = Tail(cmds)
              /\ UNCHANGED <<mutexChan, recvChan, chanGen>>
    /\ UNCHANGED <<tx, nextEnv, facadeVars, oneshot, sup, retryIdx, ghostVars, panics, scn>>
    /\ inflight' = inflight + (Len(posts') - Len(posts))

\* WaitNextCycle or WaitingRetry, Terminate is received: Terminated at once,
\* the queue and the batch are left behind.
WorkerTerminate ==
    /\ wstate \in {"WaitNextCycle", "WaitingRetry"}
    /\ cmds # <<>> /\ Head(cmds) = "Terminate"
    /\ Stop
    /\ discarded' = discarded \cup Range(batch)
    /\ UNCHANGED <<tx, inflight, items, nextEnv, facadeVars, oneshot, sup, retryIdx, posts, exhausted,
                   panics, scn>>

\* Faulty variant of Finish: Closing ends without the final drain.
FinishNoFinalDrain ==
    IF mode = "cycle"
      THEN /\ wstate' = "WaitNextCycle"
           /\ batch' = <<>>
           /\ attempt' = 0
           /\ deadline' = "interval"
           /\ UNCHANGED <<items, mode, posts, chanVars>>
    ELSE Stop /\ UNCHANGED <<items, posts>>

\* The batch is done with (Success, NoRetry, schedule exhausted): back to the
\* prior mode. Closing does one final drain and submits it; then Terminated.
Finish ==
    IF mode = "cycle"
      THEN /\ wstate' = "WaitNextCycle"
           /\ batch' = <<>>
           /\ attempt' = 0
           /\ deadline' = "interval"
           /\ UNCHANGED <<items, mode, posts, chanVars>>
    ELSE IF mode = "closing" /\ items # <<>>
      THEN DrainAndSubmit("final") /\ UNCHANGED chanVars
    ELSE Stop /\ UNCHANGED <<items, posts>>

\* Faulty variant of HandleRetry: one attempt more than the schedule has
\* delays.
HandleRetryOneMore(remaining) ==
    IF retryIdx <= ScheduleLen /\ attempt <= ScheduleLen
      THEN /\ wstate' = "WaitingRetry"
           /\ batch' = remaining
           /\ retryIdx' = retryIdx + 1
           /\ deadline' = "backoff"
           /\ discarded' = discarded \cup (Range(batch) \ Range(remaining))
           /\ UNCHANGED <<items, mode, attempt, posts, chanVars, exhausted>>
      ELSE /\ Finish
           /\ retryIdx' = retryIdx
           /\ discarded' = discarded \cup Range(batch)
           /\ exhausted' = exhausted \cup Range(remaining)

\* Retry(remaining) with the next delay of the schedule, or the batch is
\* dropped when the schedule is exhausted: no delay is left, or the batch has
\* had as many further attempts as the schedule has delays (an attempt after a
\* server-given wait counts, though it consumed no delay).
HandleRetry(remaining) ==
    IF retryIdx < ScheduleLen /\ attempt < ScheduleLen
      THEN /\ wstate' = "WaitingRetry"
           /\ batch' = remaining
           /\ retryIdx' = retryIdx + 1
           /\ deadline' = "backoff"
           /\ discarded' = discarded \cup (Range(batch) \ Range(remaining))
           /\ UNCHANGED <<items, mode, attempt, posts, chanVars, exhausted>>
      ELSE /\ Finish
           /\ retryIdx' = retryIdx
           /\ discarded' = discarded \cup Range(batch)
           /\ exhausted' = exhausted \cup Range(remaining)

\* Faulty variant of HandleThrottled: one server-given wait more than the
\* attempt budget allows.
HandleThrottledOneMore(remaining) ==
    IF attempt <= ScheduleLen
      THEN /\ wstate' = "WaitingRetry"
           /\ batch' = remaining
           /\ deadline' = "until"
           /\ discarded' = discarded \cup (Range(batch) \ Range(remaining))
           /\ UNCHANGED <<items, mode, attempt, retryIdx, posts, chanVars, exhausted>>
      ELSE /\ Finish
           /\ retryIdx' = retryIdx
           /\ discarded' = discarded \cup Range(batch)
           /\ exhausted' = exhausted \cup Range(remaining)

\* Throttled(until, remaining): wait until the server's time, no delay of the
\* schedule consumed, within the attempt budget.
HandleThrottled(remaining) ==
    IF attempt < ScheduleLen
      THEN /\ wstate' = "WaitingRetry"
           /\ batch' = remaining
           /\ deadline' = "until"
           /\ discarded' = discarded \cup (Range(batch) \ Range(remaining))
           /\ UNCHANGED <<items, mode, attempt, retryIdx, posts, chanVars, exhausted>>
      ELSE /\ Finish
           /\ retryIdx' = retryIdx
           /\ discarded' = discarded \cup Range(batch)
           /\ exhausted' = exhausted \cup Range(remaining)

\* Faulty variant of Respond: Success and NoRetry leave the retry policy as
\* the last batch left it.
RespondKeepsIndex(answers) ==
    /\ wstate = "Submitting"
    /\ \E o \in {TransmitterSend(batch, r) : r \in answers} :
            CASE o.kind = "Panic" ->
                   /\ panics < MaxPanics
                   /\ panics' = panics + 1
                   /\ wstate' = "Panicked"
                   /\ batch' = <<>>
                   /\ deadline' = "none"
                   /\ ReceiverDropped
                   /\ discarded' = discarded \cup Range(batch)
                   /\ UNCHANGED <<items, mode, attempt, retryIdx, posts, exhausted>>
              [] o.kind \in {"Success", "NoRetry"} ->
                   /\ Finish
                   /\ retryIdx' = retryIdx
                   /\ discarded' = discarded \cup Range(batch)
                   /\ UNCHANGED <<exhausted, panics>>
              [] o.kind = "Retry" -> HandleRetry(o.items) /\ UNCHANGED panics
              [] o.kind = "Err" -> HandleRetry(batch) /\ UNCHANGED panics
              [] o.kind = "Throttled" -> HandleThrottled(o.items) /\ UNCHANGED panics
    /\ UNCHANGED <<tx, nextEnv, facadeVars, oneshot, sup, scn>>
    /\ inflight' = inflight - 1 + (Len(posts') - Len(posts))

\* Submitting: the server's answer, one of answers, arrives and
\* transmitter.send returns.
Respond(answers) ==
    /\ wstate = "Submitting"
    /\ \E o \in {TransmitterSend(batch, r) : r \in answers} :
            CASE o.kind = "Panic" ->
                   /\ panics < MaxPanics
                   /\ panics' = panics + 1
                   /\ wstate' = "Panicked"
                   /\ batch' = <<>>
                   /\ deadline' = "none"
                   /\ ReceiverDropped
                   /\ discarded' = discarded \cup Range(batch)
                   /\ UNCHANGED <<items, mode, attempt, retryIdx, posts, exhausted>>
              [] o.kind \in {"Success", "NoRetry"} ->
                   /\ Finish
                   /\ retryIdx' = 0
                   /\ discarded' = discarded \cup Range(batch)
                   /\ UNCHANGED <<exhausted, panics>>
              [] o.kind = "Retry" -> HandleRetry(o.items) /\ UNCHANGED panics
              [] o.kind = "Err" -> HandleRetry(batch) /\ UNCHANGED panics
              [] o.kind = "Throttled" -> HandleThrottled(o.items) /\ UNCHANGED panics
    /\ UNCHANGED <<tx, nextEnv, facadeVars, oneshot, sup, scn>>
    /\ inflight' = inflight - 1 + (Len(posts') - Len(posts))

\* The server is free to answer anything.
Response == Respond(Responses)

\* WaitingRetry, the timer fires: Submitting(batch, k + 1).
RetryTimer ==
    /\ wstate = "WaitingRetry"
    /\ wstate' = "Submitting"
    /\ attempt' = attempt + 1
    /\ deadline' = "none"
    /\ posts' = Append(posts, batch)
    /\ scn' = IF scn.kind \in {"drop", "RetryClose"} THEN scn ELSE NoScn
    /\ UNCHANGED <<tx, items, nextEnv, facadeVars, oneshot, chanVars, sup, mode, batch,
                   retryIdx, ghostVars, panics>>
    /\ inflight' = inflight + (Len(posts') - Len(posts))

\* Faulty variant of RetryFlush: Flush cuts the retry wait short and the batch
\* is submitted at once.
RetryFlushSubmits ==
    /\ wstate = "WaitingRetry"
    /\ cmds # <<>> /\ Head(cmds) = "Flush"
    /\ cmds' = Tail(cmds)
    /\ wstate' = "Submitting"
    /\ attempt' = attempt + 1
    /\ deadline' = "none"
    /\ posts' = Append(posts, batch)
    /\ inflight' = inflight + 1
    /\ scn' = IF scn.kind = "drop" THEN scn
              ELSE [kind |-> "RetryFlush", q |-> batch, base |-> Len(posts)]
    /\ UNCHANGED <<tx, items, nextEnv, facadeVars, oneshot, mutexChan, recvChan, chanGen, sup,
                   mode, batch, retryIdx, ghostVars, panics>>

\* WaitingRetry, Flush is received and ignored.
RetryFlush ==
    /\ wstate = "WaitingRetry"
    /\ cmds # <<>> /\ Head(cmds) = "Flush"
    /\ cmds' = Tail(cmds)
    /\ scn' = IF scn.kind = "drop" THEN scn
              ELSE [kind |-> "RetryFlush", q |-> batch, base |-> Len(posts)]
    /\ UNCHANGED <<tx, inflight, items, nextEnv, facadeVars, oneshot, mutexChan, recvChan, chanGen, sup,
                   workerVars, posts, ghostVars, panics>>

\* Faulty variant of RetryClose: Close ends the worker in its retry wait and
\* the batch is left behind.
RetryCloseAbandons ==
    /\ wstate = "WaitingRetry"
    /\ cmds # <<>> /\ Head(cmds) = "Close"
    /\ Stop
    /\ discarded' = discarded \cup Range(batch)
    /\ scn' = IF scn.kind = "drop" THEN scn
              ELSE [kind |-> "RetryClose", q |-> batch, base |-> Len(posts)]
    /\ UNCHANGED <<tx, inflight, items, nextEnv, facadeVars, oneshot, sup, retryIdx, posts,
                   exhausted, panics>>

\* WaitingRetry, Close is received: the batch is kept; the worker either lets
\* the wait elapse or attempts at once, in both cases with continuation Closing.
RetryClose ==
    /\ wstate = "WaitingRetry"
    /\ cmds # <<>> /\ Head(cmds) = "Close"
    /\ cmds' = Tail(cmds)
    /\ mode' = IF mode = "cycle" THEN "closing" ELSE mode
    /\ \/ UNCHANGED <<wstate, attempt, deadline, posts>>
       \/ /\ wstate' = "Submitting"
          /\ attempt' = attempt + 1
          /\ deadline' = "none"
          /\ posts' = Append(posts, batch)
    /\ scn' = IF scn.kind = "drop" THEN scn
              ELSE [kind |-> "RetryClose", q |-> batch, base |-> Len(posts)]
    /\ UNCHANGED <<tx, items, nextEnv, facadeVars, oneshot, mutexChan, recvChan, chanGen, sup,
                   batch, retryIdx, ghostVars, panics>>
    /\ inflight' = inflight + (Len(posts') - Len(posts))

\* ---------------------------------------------------------- specification
Next ==
    \/ Send
    \/ Flush
    \/ Close
    \/ Terminate
    \/ ShutdownCommand
    \/ ShutdownJoin
    \/ Drop
    \/ SupSpawn
    \/ SupJoinOk
    \/ SupCheck
    \/ SupSwap
    \/ WorkerStart
    \/ CycleTimer
    \/ CycleFlush
    \/ CycleClose
    \/ WorkerTerminate
    \/ Response
    \/ RetryTimer
    \/ RetryFlush
    \/ RetryClose

Spec == Init /\ [][Next]_vars

\* The steps of the three tasks: the caller driving a shutdown call it has
\* started, the supervisor task, and the worker task with its timers and the
\* server's answers.
FacadeStep == ShutdownCommand \/ ShutdownJoin

SupStep == SupSpawn \/ SupJoinOk \/ SupCheck \/ SupSwap

WorkerStep ==
    \/ WorkerStart \/ CycleTimer \/ CycleFlush \/ CycleClose \/ WorkerTerminate
    \/ Response \/ RetryTimer \/ RetryFlush \/ RetryClose

\* The scheduling the runtime gives: every task that can take a step is
\* polled and the server answers every request; every sleep expires, however
\* many commands arrive meanwhile.
\* Producers and the callers of flush, close, terminate are free.
Fairness ==
    /\ WF_vars(FacadeStep) /\ WF_vars(SupStep) /\ WF_vars(WorkerStep)
    /\ WF_vars(CycleTimer) /\ WF_vars(RetryTimer)

FairSpec == Spec /\ Fairness

\* ------------------------------------------------- the transmitter alone
\* One call of Transmitter::send, or of retain_retry_items, on an arbitrary
\* batch and an arbitrary answer: error items with any of these status codes
\* at any index up to one past the end of the longest batch, listed in any
\* order, repeated or not.
TxErrorItems == [index : 0..TxMaxLen, statusCode : {200, 206, 400, 408, 429, 500, 503}]

TxErrorLists == UNION {[1..n -> TxErrorItems] : n \in 0..TxMaxErrors}

TxBodies == {NoBody} \cup [parse : {TRUE}, allok : BOOLEAN, errors : TxErrorLists]

TxResponses ==
    {Resp(st, b, "none") : st \in {0, 200, 206, 400, 401, 500, 503}, b \in TxBodies}
    \cup {Resp(st, b, ra) : st \in {408, 429}, b \in TxBodies,
                            ra \in {"none", "valid", "malformed"}}

TxBatches == {[i \in 1..n |-> i] : n \in 0..TxMaxLen}

NoOut == [kind |-> "none", items |-> <<>>]

TxInit ==
    /\ InitPipeline
    /\ tx \in [phase : {"input"}, items : TxBatches, resp : TxResponses, out : {NoOut}]

\* transmitter.send(items) is called and returns, fails or panics.
TxSend ==
    /\ tx.phase = "input"
    /\ tx' = [tx EXCEPT !.phase = "sent", !.out = TransmitterSend(tx.items, tx.resp)]
    /\ UNCHANGED pipelineVars

\* retain_retry_items(&mut items, content) is called on a parsed body: out
\* is what it leaves in items, or that it panicked.
TxRetain ==
    /\ tx.phase = "input"
    /\ tx.resp.parse
    /\ LET kept == retain_retry_items(tx.items, tx.resp)
       IN tx' = [tx EXCEPT !.phase = "retained",
                           !.out = Outcome(IF kept.panic THEN "Panic" ELSE "Kept", kept.items)]
    /\ UNCHANGED pipelineVars

TxNext == TxSend \/ TxRetain

TxSpec == TxInit /\ [][TxNext]_vars

\* ------------------------------------------------------ the envelope alone
\* Envelope::from((context, telemetry)) for a trace: the tags and the
\* properties of both sides are maps from keys to values.
Keys == {"test", "no-write"}

Values == {"ok", "fail"}

Maps == UNION {[K -> Values] : K \in SUBSET Keys}

\* ContextTags::combine and Properties::combine: the union of the two maps,
\* the second one's value for a key of both.
combine(a, b) ==
    [k \in DOMAIN a \cup DOMAIN b |-> IF k \in DOMAIN b THEN b[k] ELSE a[k]]

\* Faulty variant of EnvelopeFrom: the two sides are passed the other way round.
EnvelopeFromContextWins(context, telemetry) ==
    [tags |-> combine(telemetry.tags, context.tags),
     properties |-> combine(telemetry.properties, context.properties)]

\* impl From<(TelemetryContext, TraceTelemetry)> for Envelope: the tags and
\* the properties of the envelope.
EnvelopeFrom(context, telemetry) ==
    [tags |-> combine(context.tags, telemetry.tags),
     properties |-> combine(context.properties, telemetry.properties)]

NoEnvelope == [tags |-> <<>>, properties |-> <<>>]

EnvInit ==
    /\ InitPipeline
    /\ tx \in [phase : {"pair"}, context : [tags : Maps, properties : Maps],
                telemetry : [tags : Maps, properties : Maps], out : {NoEnvelope}]

\* Envelope::from((context, telemetry))
FromPair ==
    /\ tx.phase = "pair"
    /\ tx' = [tx EXCEPT !.phase = "envelope", !.out = EnvelopeFrom(tx.context, tx.telemetry)]
    /\ UNCHANGED pipelineVars

EnvNext == FromPair

EnvSpec == EnvInit /\ [][EnvNext]_vars

\* --------------------------------------------------------- the queue alone
\* The queue with its producers and its one consumer, a drain taken apart into
\* its pops so that pushes fall between them. q: the queue; pushed: envelopes
\* pushed so far; active: a drain is under way; snap: the length of the queue
\* when it began; cur: what it has popped; drains: the drains returned, in
\* order; epoch[e]: the drain under way, or else the next one to begin, when e
\* was pushed; during[e]: a drain was under way then.
QueueInit ==
    /\ InitPipeline
    /\ tx = [phase |-> "queue", q |-> <<>>, pushed |-> 0, active |-> FALSE, snap |-> 0,
             cur |-> <<>>, drains |-> <<>>, epoch |-> <<>>, during |-> <<>>]

\* Faulty variant of QueuePush: the envelope is put at the front.
QueuePushFront ==
    /\ tx.pushed < QMaxPush
    /\ tx' = [tx EXCEPT !.q = <<tx.pushed + 1>> \o tx.q,
                        !.pushed = tx.pushed + 1,
                        !.epoch = Append(tx.epoch, Len(tx.drains) + 1),
                        !.during = Append(tx.during, tx.active)]
    /\ UNCHANGED pipelineVars

\* InMemoryChannel::send: self.items.push(envelop)
QueuePush ==
    /\ tx.pushed < QMaxPush
    /\ tx' = [tx EXCEPT !.q = Append(tx.q, tx.pushed + 1),
                        !.pushed = tx.pushed + 1,
                        !.epoch = Append(tx.epoch, Len(tx.drains) + 1),
                        !.during = Append(tx.during, tx.active)]
    /\ UNCHANGED pipelineVars

\* drain_all begins.
DrainBegin ==
    /\ ~tx.active
    /\ Len(tx.drains) < QMaxDrains
    /\ tx' = [tx EXCEPT !.active = TRUE, !.snap = Len(tx.q), !.cur = <<>>]
    /\ UNCHANGED pipelineVars

\* drain_all pops the oldest envelope.
DrainPop ==
    /\ tx.active
    /\ tx.q # <<>>
    /\ tx' = [tx EXCEPT !.q = Tail(tx.q), !.cur = Append(tx.cur, Head(tx.q))]
    /\ UNCHANGED pipelineVars

\* drain_all returns: it found the queue empty, or it has popped as many
\* envelopes as were enqueued when it began.
DrainEnd ==
    /\ tx.active
    /\ tx.q = <<>> \/ Len(tx.cur) >= tx.snap
    /\ tx' = [tx EXCEPT !.active = FALSE, !.drains = Append(tx.drains, tx.cur), !.cur = <<>>]
    /\ UNCHANGED pipelineVars

QueueNext == QueuePush \/ DrainBegin \/ DrainPop \/ DrainEnd

QueueSpec == QueueInit /\ [][QueueNext]_vars

\* A server that answers 200 to every request, as the mock server of the
\* integration tests does by default: no batch is ever retried.
OkServer == {Resp(200, NoBody, "none")}

ResponseOk == Respond(OkServer)

NextOk ==
    \/ Send
    \/ Flush
    \/ Close
    \/ Terminate
    \/ ShutdownCommand
    \/ ShutdownJoin
    \/ Drop
    \/ SupSpawn
    \/ SupJoinOk
    \/ SupCheck
    \/ SupSwap
    \/ WorkerStart
    \/ CycleTimer
    \/ CycleFlush
    \/ CycleClose
    \/ WorkerTerminate
    \/ ResponseOk

OkSpec == Init /\ [][NextOk]_vars

\* A server that answers the first request 500 with a body that is no status
\* document and every later one 200.
S8Server ==
    {IF Len(posts) = 1 THEN Resp(500, NoBody, "none") ELSE Resp(200, NoBody, "none")}

ResponseS8 == Respond(S8Server)

NextS8 ==
    \/ Send
    \/ Flush
    \/ Close
    \/ Terminate
    \/ ShutdownCommand
    \/ ShutdownJoin
    \/ Drop
    \/ SupSpawn
    \/ SupJoinOk
    \/ SupCheck
    \/ SupSwap
    \/ WorkerStart
    \/ CycleTimer
    \/ CycleFlush
    \/ CycleClose
    \/ WorkerTerminate
    \/ ResponseS8
    \/ RetryTimer
    \/ RetryFlush
    \/ RetryClose

S8Spec == Init /\ [][NextS8]_vars

S8FairSpec == S8Spec /\ Fairness

\* A server behind a network that may fail: every request either fails below
\* HTTP (connection, timeout, DNS) or is answered 200.
FlakyNetServer == {Resp(0, NoBody, "none"), Resp(200, NoBody, "none")}

ResponseFlakyNet == Respond(FlakyNetServer)

NextFlakyNet ==
    \/ Send
    \/ Flush
    \/ Close
    \/ Terminate
    \/ ShutdownCommand
    \/ ShutdownJoin
    \/ Drop
    \/ SupSpawn
    \/ SupJoinOk
    \/ SupCheck
    \/ SupSwap
    \/ WorkerStart
    \/ CycleTimer
    \/ CycleFlush
    \/ CycleClose
    \/ WorkerTerminate
    \/ ResponseFlakyNet
    \/ RetryTimer
    \/ RetryFlush
    \/ RetryClose

FlakyNetSpec == Init /\ [][NextFlakyNet]_vars

\* ------------------------------------------------------------ observations
Count(s, e) == Cardinality({i \in 1..Len(s) : s[i] = e})

Sent(e) == e < nextEnv

Transmitted(e) == \E i \in 1..Len(posts) : e \in Range(posts[i])

\* close or terminate has signalled the shutdown.
ShutdownRequested == oneshot \in {"sent", "taken"}

\* A call of close or terminate has returned.
Returned == ShutdownRequested /\ (fpc = "ready" \/ ~join)

AllTaken == ~shutdown_sender /\ ~command_sender /\ ~join

\* The requests started since the scenario began.
PostsSince == SubSeq(posts, scn.base + 1, Len(posts))

\* Those of them that carry an envelope of the scenario's queue.
PostsOfScn == {i \in scn.base + 1..Len(posts) : Range(posts[i]) \cap Range(scn.q) # {}}

InEnqueueOrder(s) == \A i, j \in 1..Len(s) : i < j => s[i] < s[j]

\* ------------------------------------------------------------------ claims
\* C1: every envelope accepted by send is in exactly one of the queue, the
\* batch the worker holds, or the discarded ones; an envelope not yet sent is
\* in none of them.
C1_ExactlyOnePlace ==
    \A e \in Envelopes :
        Count(items, e) + Count(batch, e) + (IF e \in discarded THEN 1 ELSE 0)
            = (IF Sent(e) THEN 1 ELSE 0)

C1_Witness ==
    /\ wstate = "WaitingRetry" /\ Len(batch) = 1
    /\ discarded # {} /\ nextEnv > MaxEnv

\* C2: under fair scheduling every envelope passed to send is eventually
\* transmitted in a request body, dropped with an exhausted retry schedule, or
\* abandoned: the shutdown was requested or the facade dropped, and the
\* supervisor and its worker are gone.
Abandoned == (ShutdownRequested \/ fpc = "dropped") /\ sup = "done"

C3_NoRequestAfterShutdownReturns ==
    /\ [](Returned => sup = "done" /\ wstate = "none")
    /\ [][Returned => posts' = posts /\ sup' = "done" /\ wstate' = "none"]_vars

C3_Witness ==
    /\ Returned /\ fpc = "ready" /\ posts # <<>> /\ items # <<>>

\* C4: close() called while the worker waits for its next cycle, no command
\* pending, with n >= 1 envelopes queued: when the call returns without a
\* timer having expired since, exactly one POST was started since the call,
\* its body is the n envelopes, and the worker and the supervisor have exited.
C4_CloseDrainsInOnePost ==
    (fpc = "ready" /\ scn.kind = "Close" /\ scn.q # <<>>)
        => (PostsSince = <<scn.q>> /\ sup = "done" /\ wstate = "none")

C4_Witness ==
    /\ fpc = "ready" /\ scn.kind = "Close" /\ Len(scn.q) = MaxEnv

\* C5: once the worker has processed Terminate it starts no request: the
\* step ends the worker, lets go of the batch, leaves the queue as it is and
\* sends nothing; no step of a Terminated worker adds a request; and
\* terminate() called while the worker waits for its next cycle, no command
\* pending, returns (no timer having expired) with no POST started since the
\* call.
C5_TerminateStartsNoRequest ==
    /\ [][WorkerTerminate => wstate' = "Terminated" /\ batch' = <<>> /\ posts' = posts
                             /\ items' = items]_vars
    /\ [][wstate = "Terminated" => posts' = posts]_vars
    /\ []((fpc = "ready" /\ scn.kind = "Terminate")
            => (PostsSince = <<>> /\ sup = "done"))

C5_Witness ==
    /\ fpc = "ready" /\ scn.kind = "Terminate" /\ Len(scn.q) = MaxEnv /\ items = scn.q

\* C6: after the facade is dropped while the worker waits for its next cycle,
\* no POST is started, also when the cycle timer fires later.
C6_NoPostAfterDrop ==
    scn.kind = "drop" => PostsSince = <<>>

\* C7: after a first close() or terminate() has completed the facade's three
\* Options are None, and every step of a later close() or terminate() changes
\* nothing but the caller's position: no signal, no command, nothing awaited.
C7_SecondShutdownIsNoOp ==
    /\ [](Returned => AllTaken)
    /\ []((AllTaken /\ fpc = "join") => ENABLED ShutdownJoin)
    /\ [][(AllTaken /\ fpc' # fpc /\ fpc' # "dropped")
            => UNCHANGED <<items, nextEnv, command_sender, shutdown_sender, join, oneshot,
                           chanVars, sup, workerVars, posts, ghostVars, panics>>]_vars

C7_Witness ==
    /\ AllTaken /\ ShutdownRequested /\ fpc = "join" /\ fcmd = "Close"

\* C8: under fair scheduling every call of close() or terminate() that has
\* sent its command and awaits the supervisor eventually returns.
C8_ShutdownReturns ==
    (fpc = "join") ~> (fpc = "ready")

\* C9: flush() called while the worker waits for its next cycle with n >= 1
\* envelopes queued: once the worker waits again with no command pending,
\* and as long as no timer expires and no close, terminate or drop follows,
\* exactly one POST carrying any of the n envelopes has been started, and its
\* body begins with all n of them.
C9_FlushSendsOnePost ==
    (scn.kind = "flush" /\ Idle)
        => /\ Cardinality(PostsOfScn) = 1
           /\ \A i \in PostsOfScn : IsPrefix(scn.q, posts[i])

C9_Witness ==
    /\ scn.kind = "flush" /\ Idle /\ Len(scn.q) = MaxEnv

\* C10: the cycle timer fires with n >= 1 envelopes queued (no shutdown
\* requested): from then until the next timer expiry or control call, exactly
\* one POST carrying any of them is started, the one of this tick, and its
\* body is the n envelopes in the order they were enqueued.
C10_TickSendsOnePostInOrder ==
    scn.kind = "tick"
        => /\ PostsOfScn = {scn.base + 1}
           /\ posts[scn.base + 1] = scn.q
           /\ InEnqueueOrder(posts[scn.base + 1])

C10_Witness ==
    /\ scn.kind = "tick" /\ Len(scn.q) = MaxEnv /\ wstate = "WaitNextCycle"

\* C11: no HTTP request is started for an empty batch: not by a tick, a flush
\* or a close that finds the queue empty, and not by a retry.
C11_NoEmptyRequest ==
    \A i \in 1..Len(posts) : posts[i] # <<>>

\* C12: with a server that answers 200 to everything, the request bodies in
\* the order they were started, followed by the queue, are the envelopes sent
\* so far in the order they were sent: successive cycles send successive
\* batches, no envelope is missing and none is in two bodies.
RECURSIVE Flatten(_)
Flatten(ss) == IF ss = <<>> THEN <<>> ELSE Head(ss) \o Flatten(Tail(ss))

C12_SuccessiveBatchesOnce ==
    Flatten(posts) \o items = [i \in 1..nextEnv - 1 |-> i]

C12_Witness ==
    /\ posts = <<<<1>>, <<2>>>> /\ scn.kind = "tick" /\ scn.base = 1
    /\ wstate = "WaitNextCycle"

\* C13: the step in which a batch's request is answered 200 lets go of every
\* envelope of the batch and leaves the worker with no retry of it; no request
\* started afterwards carries an envelope the pipeline has let go of; and a
\* cycle timer that finds the queue empty starts no request.
C13_NoResendAfterSuccess ==
    /\ [][ResponseOk => /\ Range(batch) \subseteq discarded'
                         /\ Range(batch') \cap Range(batch) = {}
                         /\ wstate' # "WaitingRetry"]_vars
    /\ [][\A i \in Len(posts) + 1..Len(posts') : Range(posts'[i]) \cap discarded = {}]_vars
    /\ [][(CycleTimer /\ items = <<>>) => posts' = posts]_vars

C13_Witness ==
    /\ Len(posts) = 1 /\ Range(posts[1]) \subseteq discarded /\ items = <<>>
    /\ Idle /\ scn = NoScn /\ retryIdx = 0 /\ attempt = 0 /\ fpc = "ready" /\ command_sender

\* C14: with a server that answers the first request 500 with an unparseable
\* body and the next 200: a second request, if there is one, has the body of
\* the first; while no shutdown is requested it is started by the expiry of
\* the retry wait and by nothing else; the second is eventually started unless
\* the worker is terminated first; and no request after the second carries an
\* envelope of the first.
C14_RetryOnceAfter500 ==
    /\ [](Len(posts) >= 2 => posts[2] = posts[1])
    /\ [][(Len(posts) = 1 /\ Len(posts') = 2 /\ ~ShutdownRequested) => RetryTimer]_vars
    /\ [](\A i \in 3..Len(posts) : Range(posts[i]) \cap Range(posts[1]) = {})
    /\ (Len(posts) = 1) ~> (Len(posts) >= 2 \/ sup = "done")

C14_Witness ==
    /\ Len(posts) = 2 /\ posts[2] = posts[1] /\ Len(posts[1]) = MaxEnv
    /\ Idle /\ discarded = Envelopes /\ ~ShutdownRequested /\ fpc = "ready"

\* What the specification asks of index reconciliation: the envelopes at the
\* indices of the retryable errors, in batch order.
RetryableCodes == {206, 408, 429, 500, 503}

RetryableIndices(errs) ==
    {errs[i].index : i \in {j \in 1..Len(errs) : errs[j].statusCode \in RetryableCodes}}

RECURSIVE KeepAt(_, _, _)
KeepAt(its, idx, p) ==
    IF p > Len(its) THEN <<>>
    ELSE (IF p - 1 \in idx THEN <<its[p]>> ELSE <<>>) \o KeepAt(its, idx, p + 1)

Expected(its, errs) == KeepAt(its, RetryableIndices(errs), 1)

DistinctInRange(its, errs) ==
    /\ \A i \in 1..Len(errs) : errs[i].index < Len(its)
    /\ \A i, j \in 1..Len(errs) : i # j => errs[i].index # errs[j].index

\* C15: for any batch and any error list with distinct in-range indices,
\* retain_retry_items leaves exactly the envelopes at the indices whose
\* statusCode is one of 206, 408, 429, 500, 503, in batch order, as iterating
\* the errors in ascending index order would.
C15_RetainKeepsRetryableInOrder ==
    (tx.phase = "retained" /\ DistinctInRange(tx.items, tx.resp.errors))
        => tx.out = Outcome("Kept", Expected(tx.items, tx.resp.errors))

\* C16: whatever the body, Transmitter::send answers Success to status 200
\* (an empty body included), Retry of the full unchanged batch to 503, and
\* NoRetry to every status other than 200, 206, 408, 429, 500 and 503.
C16_StatusAloneDecides ==
    tx.phase = "sent" =>
        /\ tx.resp.status = 200 => tx.out = Outcome("Success", <<>>)
        /\ tx.resp.status = 503 => tx.out = Outcome("Retry", tx.items)
        /\ tx.resp.status \in {400, 401} => tx.out = Outcome("NoRetry", <<>>)

C16_Witness ==
    /\ tx.phase = "sent" /\ tx.resp.status = 503 /\ tx.resp.parse /\ ~tx.resp.allok
    /\ Len(tx.resp.errors) = TxMaxErrors /\ Len(tx.items) = TxMaxLen
    /\ tx.out = Outcome("Retry", tx.items)

\* C17: for a 206 answer whose body parses, the outcome is Success when
\* itemsAccepted = itemsReceived, whatever the error list; otherwise the batch
\* is filtered to the envelopes at the retryable errors' indices and the
\* outcome is NoRetry when nothing remains and Retry(remaining) otherwise.
C17_PartialContentOutcome ==
    (tx.phase = "sent" /\ tx.resp.status = 206 /\ tx.resp.parse)
        => tx.out = IF tx.resp.allok THEN Outcome("Success", <<>>)
                    ELSE LET remaining == Expected(tx.items, tx.resp.errors)
                         IN IF remaining = <<>> THEN Outcome("NoRetry", <<>>)
                            ELSE Outcome("Retry", remaining)

\* C18: for a 408 or 429 answer, remaining is the envelopes at the retryable
\* errors' indices when the body parses and the full batch otherwise; the
\* outcome is Throttled(until, remaining) when a Retry-After header is present
\* and Retry(remaining) when it is absent.
C18_ThrottleOutcome ==
    (tx.phase = "sent" /\ tx.resp.status \in {408, 429})
        => LET remaining == IF tx.resp.parse THEN Expected(tx.items, tx.resp.errors)
                            ELSE tx.items
           IN tx.out = Outcome(IF tx.resp.retryAfter = "none" THEN "Retry" ELSE "Throttled",
                               remaining)

\* C19: for a 500 answer, when the body parses the batch is filtered to the
\* envelopes at the retryable errors' indices and the outcome is NoRetry when
\* nothing remains and Retry(remaining) otherwise; when the body does not
\* parse the outcome is Retry of the full unchanged batch.
C19_ServerErrorOutcome ==
    (tx.phase = "sent" /\ tx.resp.status = 500)
        => tx.out = IF ~tx.resp.parse THEN Outcome("Retry", tx.items)
                    ELSE LET remaining == Expected(tx.items, tx.resp.errors)
                         IN IF remaining = <<>> THEN Outcome("NoRetry", <<>>)
                            ELSE Outcome("Retry", remaining)

\* C20: at most one worker task exists at any instant: a worker task runs
\* only while the supervisor awaits it, and every spawn happens when no worker
\* task exists, the previous one having ended and been joined, also after a
\* panic and a restart.
WorkerRunning == wstate \in {"new", "WaitNextCycle", "Submitting", "WaitingRetry"}

C20_OneWorkerAtATime ==
    /\ [](WorkerRunning => sup = "await")
    /\ [](sup # "await" => wstate = "none")
    /\ [][SupSpawn => wstate = "none"]_vars

C20_Witness ==
    /\ WorkerRunning /\ panics = MaxPanics /\ chanGen = MaxPanics + 1 /\ recvChan = chanGen
    /\ wstate = "Submitting"

\* C21: at most one request of the channel is in flight at any instant, and
\* a step that starts a request is taken with none in flight or is the step
\* in which the answer to the one in flight arrives; also across retries,
\* flushes and worker restarts.
C21_OneRequestInFlight ==
    /\ [](inflight \in {0, 1})
    /\ [](inflight = 1 <=> wstate = "Submitting")
    /\ [][posts' # posts => /\ Len(posts') = Len(posts) + 1
                            /\ (inflight = 0 \/ Response)]_vars

C21_Witness ==
    /\ inflight = 1 /\ Len(posts) = 3 /\ panics = MaxPanics /\ chanGen = MaxPanics + 1
    /\ attempt = 1

\* C22: until close, terminate or the drop of the facade, the facade holds
\* its command sender; whenever a worker is about to be spawned or is running,
\* the sender under the mutex belongs to the channel whose receiver that
\* worker holds, also after a panic and the supervisor's swap; and a flush()
\* made while a restarted worker runs puts Flush on that worker's channel,
\* where the worker, once it waits, can receive it.
WorkerWaits == wstate \in {"WaitNextCycle", "WaitingRetry"}

MergedTelemetryFirst(out, ofContext, ofTelemetry) ==
    /\ DOMAIN ofContext \cup DOMAIN ofTelemetry \subseteq DOMAIN out
    /\ \A k \in DOMAIN ofContext \cap DOMAIN ofTelemetry : out[k] = ofTelemetry[k]

C23_TelemetryOverridesContext ==
    tx.phase = "envelope" =>
        /\ MergedTelemetryFirst(tx.out.tags, tx.context.tags, tx.telemetry.tags)
        /\ MergedTelemetryFirst(tx.out.properties, tx.context.properties,
                                tx.telemetry.properties)

C23_Witness ==
    /\ tx.phase = "envelope"
    /\ tx.context.properties = [k \in Keys |-> IF k = "test" THEN "ok" ELSE "fail"]
    /\ tx.telemetry.properties = [k \in {"no-write"} |-> "ok"]
    /\ tx.out.properties = [k \in Keys |-> "ok"]
    /\ tx.context.tags = tx.context.properties /\ tx.telemetry.tags = tx.telemetry.properties

\* C24: on a 408 or 429 answer whose Retry-After header is present but is no
\* RFC 2822 date, Transmitter::send gives Retry, not Throttled and not an error.
C24_MalformedRetryAfterFallsBack ==
    (tx.phase = "sent" /\ tx.resp.status \in {408, 429} /\ tx.resp.retryAfter = "malformed")
        => tx.out.kind = "Retry"

\* C26: a 206 answer whose body is no status document gives Success.
C26_UnparseablePartialIsSuccess ==
    (tx.phase = "sent" /\ tx.resp.status = 206 /\ ~tx.resp.parse)
        => tx.out = Outcome("Success", <<>>)

\* The request fails below HTTP and transmitter.send returns the error.
NetworkFailure == Respond({Resp(0, NoBody, "none")})

\* C25: a submission that fails at the network level is a Retry of the full
\* batch: while the schedule has a delay left the worker waits that delay with
\* the identical batch and one slot is consumed, and the next request's body is
\* that batch; with the schedule exhausted the batch is dropped.
C25_NetworkFailureRetriesFullBatch ==
    /\ [][NetworkFailure =>
            IF retryIdx < ScheduleLen
              THEN /\ wstate' = "WaitingRetry"
                   /\ batch' = batch
                   /\ retryIdx' = retryIdx + 1
                   /\ deadline' = "backoff"
                   /\ posts' = posts
              ELSE /\ Range(batch) \subseteq exhausted'
                   /\ retryIdx' = retryIdx
                   /\ wstate' # "WaitingRetry"]_vars
    /\ [][(wstate = "WaitingRetry" /\ posts' # posts)
            => posts' = Append(posts, posts[Len(posts)])]_vars

C25_Witness ==
    /\ Len(posts) >= 2
    /\ posts[2] = posts[1]
    /\ wstate = "Submitting"
    /\ attempt = 1
    /\ retryIdx = 1

\* C27: a Success outcome resets the retry-delay index to zero, and the index
\* moves in no other way than that reset and one delay consumed per retry; so
\* the next batch that fails starts from the first delay and is retried, however
\* many delays the batch before it consumed.
C27_SuccessResetsRetryIndex ==
    /\ [][Respond(OkServer) => retryIdx' = 0]_vars
    /\ [][retryIdx' # retryIdx =>
            \/ retryIdx' = 0
            \/ /\ wstate = "Submitting" /\ wstate' = "WaitingRetry"
               /\ retryIdx' = retryIdx + 1
               /\ deadline' = "backoff"]_vars
    /\ [][(NetworkFailure /\ retryIdx = 0)
            => (wstate' = "WaitingRetry" /\ batch' = batch /\ retryIdx' = 1)]_vars

\* The first batch used up the schedule and then succeeded; the second batch
\* failed and is being retried.
C27_Witness ==
    /\ Len(posts) = 4
    /\ posts[1] = posts[2]
    /\ posts[3] = posts[4]
    /\ posts[1] # posts[3]
    /\ Range(posts[1]) \cap Range(posts[3]) = {}
    /\ wstate = "Submitting"
    /\ retryIdx = ScheduleLen

\* The answers on which transmitter.send asks for a retry of the batch the
\* worker holds (an error of send is one).
RetryAnswers == {r \in Responses : TransmitterSend(batch, r).kind \in {"Retry", "Err"}}

RetryOutcome == Respond(RetryAnswers)

ScheduleExhausted == retryIdx >= ScheduleLen \/ attempt >= ScheduleLen

\* The number of requests that carry envelope e.
Submissions(e) == Cardinality({i \in 1..Len(posts) : e \in Range(posts[i])})

ThrottledAnswers == {r \in Responses : TransmitterSend(batch, r).kind = "Throttled"}

ThrottledOutcome == Respond(ThrottledAnswers)

\* C29: a Throttled outcome consumes no delay of the schedule; within the
\* attempt budget the worker waits until the server's time with the remaining
\* batch and the next request is that batch, one attempt more; with the budget
\* used up the batch is dropped; so no envelope is in more than
\* ScheduleLen + 1 requests, whatever the server answers.
C29_ThrottledCountsAgainstBudget ==
    /\ [][ThrottledOutcome => retryIdx' = retryIdx]_vars
    /\ [][(ThrottledOutcome /\ attempt < ScheduleLen) =>
            /\ wstate' = "WaitingRetry"
            /\ deadline' = "until"
            /\ attempt' = attempt
            /\ posts' = posts
            /\ Range(batch') \subseteq Range(batch)]_vars
    /\ [][(ThrottledOutcome /\ attempt >= ScheduleLen) =>
            /\ wstate' # "WaitingRetry"
            /\ Range(batch) \subseteq discarded']_vars
    /\ [][(deadline = "until" /\ posts' # posts) =>
            /\ posts' = Append(posts, batch)
            /\ attempt' = attempt + 1
            /\ retryIdx' = retryIdx]_vars
    /\ [](wstate \in {"Submitting", "WaitingRetry"} =>
            \A e \in Range(batch) : Submissions(e) <= attempt + 1)
    /\ [](attempt <= ScheduleLen)

\* Only one batch was ever submitted, ScheduleLen + 1 times, and it was dropped
\* with no delay of the schedule consumed: every wait was the server's.
C29_Witness ==
    /\ Len(posts) = ScheduleLen + 1
    /\ \A i \in 1..Len(posts) : posts[i] = posts[1]
    /\ posts[1] # <<>>
    /\ Range(posts[1]) \subseteq exhausted
    /\ retryIdx = 0
    /\ wstate = "WaitNextCycle"

\* The batch that waited for its retry when Close was received has been
\* submitted again since.
ResubmittedSinceClose == Len(posts) > scn.base /\ posts[scn.base + 1] = scn.q

\* C30: a Close received while the worker waits to retry a batch keeps the
\* batch: the worker goes on waiting or submits it at once; until that batch
\* has been submitted again the worker stays in the wait with it, so it is not
\* Terminated before; and under fair scheduling the batch is submitted again.
C30_CloseKeepsRetryBatch ==
    /\ [][RetryClose =>
            /\ batch' = batch
            /\ \/ wstate' = "WaitingRetry" /\ posts' = posts
               \/ wstate' = "Submitting" /\ posts' = Append(posts, batch)]_vars
    /\ [](scn.kind = "RetryClose" =>
            \/ ResubmittedSinceClose
            \/ wstate = "WaitingRetry" /\ batch = scn.q /\ mode # "cycle")
    /\ (scn.kind = "RetryClose") ~> (scn.kind = "RetryClose" /\ ResubmittedSinceClose)

C30_Witness ==
    /\ scn.kind = "RetryClose"
    /\ scn.q # <<>>
    /\ ResubmittedSinceClose
    /\ wstate = "Terminated"

\* C39: Transmitter::send, called with a batch that is not empty and answered
\* 206, 408, 429 or 500, never gives Retry or Throttled with nothing left to
\* resubmit.
C39_NoEmptyRetry ==
    (/\ tx.phase = "sent"
     /\ tx.items # <<>>
     /\ tx.resp.status \in {206, 408, 429, 500}
     /\ tx.out.kind \in {"Retry", "Throttled"})
        => tx.out.items # <<>>

\* C40: called with a batch that is not empty and answered with a body that
\* is a status document, whatever its error list, Transmitter::send returns an
\* outcome or an error and does not panic.
C40_SendNeverPanics ==
    (tx.phase = "sent" /\ tx.items # <<>> /\ tx.resp.parse) => tx.out.kind # "Panic"

\* C31: a Flush received while the worker waits to retry a batch changes
\* nothing of the worker's: the batch, the deadline and the queue stay, and no
\* request is started; a request is started from the wait only by the retry
\* timer (or by a Close).
C31_FlushIgnoredInRetryWait ==
    /\ [][RetryFlush => UNCHANGED <<wstate, mode, batch, attempt, retryIdx, deadline, items,
                                    posts, inflight>>]_vars
    /\ [][(wstate = "WaitingRetry" /\ posts' # posts) => (RetryTimer \/ RetryClose)]_vars
    /\ []((scn.kind = "RetryFlush" /\ wstate = "WaitingRetry")
            => (batch = scn.q /\ Len(posts) = scn.base))

\* The Flush was received in the wait, with an envelope in the queue that a
\* Flush in WaitNextCycle would have drained.
C31_Witness ==
    /\ scn.kind = "RetryFlush"
    /\ wstate = "WaitingRetry"
    /\ cmds = <<>>
    /\ batch # <<>>
    /\ items # <<>>
    /\ deadline = "backoff"

\* s can be had from t by leaving elements out.
RECURSIVE IsSubsequence(_, _)
IsSubsequence(s, t) ==
    IF s = <<>> THEN TRUE
    ELSE IF t = <<>> THEN FALSE
    ELSE IF Head(s) = Head(t) THEN IsSubsequence(Tail(s), Tail(t))
    ELSE IsSubsequence(s, Tail(t))

\* C32: the batch that Transmitter::send hands back for a retry is a
\* subsequence of the batch it was called with: nothing is merged into it and
\* the order is the order of the drain.
C32_RetryBodyIsSubsequence ==
    (tx.phase = "sent" /\ tx.out.kind \in {"Retry", "Throttled"})
        => IsSubsequence(tx.out.items, tx.items)

\* C33: when the batch in flight in Closing is done with, the worker drains the
\* queue once more: what was enqueued meanwhile is submitted in one request and
\* the worker is Terminated when that batch is done with, without a further
\* drain; with nothing enqueued it is Terminated at once. Under fair scheduling
\* a worker in Closing comes to its end.
C33_ClosingDrainsOnceMore ==
    /\ [][(Response /\ mode = "closing") =>
            \/ wstate' \in {"WaitingRetry", "Panicked"}
            \/ /\ items # <<>>
               /\ wstate' = "Submitting" /\ mode' = "final"
               /\ batch' = items /\ items' = <<>>
               /\ posts' = Append(posts, items)
            \/ /\ items = <<>>
               /\ wstate' = "Terminated" /\ posts' = posts]_vars
    /\ [][(Response /\ mode = "final") =>
            \/ wstate' \in {"WaitingRetry", "Panicked"}
            \/ wstate' = "Terminated" /\ posts' = posts /\ items' = items]_vars
    /\ [][mode' # mode =>
            \/ mode = "cycle" /\ mode' = "closing"
            \/ mode = "closing" /\ mode' = "final"
            \/ mode' = "cycle" /\ wstate = "new"]_vars
    /\ (WorkerRunning /\ mode \in {"closing", "final"}) ~> ~WorkerRunning

\* The second envelope was in the queue when the first, in flight in Closing,
\* was done with; it went out in the final drain and the worker ended.
C33_Witness ==
    /\ mode = "final"
    /\ wstate = "Terminated"
    /\ Len(posts) >= 2
    /\ posts[Len(posts)] = <<2>>
    /\ posts[Len(posts) - 1] = <<1>>
    /\ items = <<>>

\* The drain, by number, that returned envelope e (0: none yet).
DrainOf(e) ==
    IF \E k \in 1..Len(tx.drains) : e \in Range(tx.drains[k])
      THEN CHOOSE k \in 1..Len(tx.drains) : e \in Range(tx.drains[k])
      ELSE 0

\* C34: with pushes falling between the pops of a drain, the drains returned,
\* the drain under way and the queue hold every envelope pushed exactly once and
\* in enqueue order; and an envelope is returned by the drain that was under way
\* (or next to begin) when it was pushed, or by the one after it.
C34_PushDuringDrainNotLost ==
    tx.phase = "queue" =>
        /\ Flatten(tx.drains) \o tx.cur \o tx.q = [e \in 1..tx.pushed |-> e]
        /\ \A k \in 1..Len(tx.drains) : InEnqueueOrder(tx.drains[k])
        /\ \A e \in 1..tx.pushed :
                DrainOf(e) # 0 => DrainOf(e) \in {tx.epoch[e], tx.epoch[e] + 1}

\* Of two envelopes pushed while a drain was under way, one was returned by
\* that drain and the other by the next.
C34_Witness ==
    /\ tx.phase = "queue"
    /\ \E e, f \in 1..tx.pushed :
            /\ tx.during[e] /\ DrainOf(e) = tx.epoch[e]
            /\ tx.during[f] /\ DrainOf(f) = tx.epoch[f] + 1

\* C35: when the worker task has failed and the supervisor looks at the
\* one-shot, it leaves its loop if the shutdown signal has been fired, with no
\* new channel and no new worker then or later; if not, its next steps are the
\* new channel, whose sender replaces the one under the mutex and whose
\* receiver is the next worker's, and the spawn of that worker, which under
\* fair scheduling it reaches.
C35_RestartUnlessShutdown ==
    /\ [][(sup = "await" /\ wstate = "Panicked" /\ sup' # sup) =>
            IF oneshot = "sent"
              THEN sup' = "done" /\ UNCHANGED <<chanGen, mutexChan>> /\ wstate' = "none"
              ELSE sup' = "swap"]_vars
    /\ [][sup = "done" => (sup' = "done" /\ UNCHANGED <<chanGen, mutexChan>>
                          /\ wstate' = wstate)]_vars
    /\ [][(sup = "swap" /\ sup' # sup) =>
            /\ sup' = "spawn"
            /\ chanGen' = chanGen + 1
            /\ mutexChan' = chanGen' /\ recvChan' = chanGen'
            /\ cmds' = <<>>]_vars
    /\ [][(sup = "spawn" /\ sup' # sup) =>
            (sup' = "await" /\ wstate' = "new" /\ UNCHANGED <<chanGen, mutexChan, recvChan>>)]_vars
    /\ (sup = "swap") ~> (sup = "await" /\ chanGen > 1)

\* The worker failed after the signal was fired and the supervisor is gone,
\* with the first channel the only one ever made.
C35_Witness ==
    /\ panics = 1
    /\ sup = "done"
    /\ oneshot = "taken"
    /\ chanGen = 1
    /\ wstate = "none"

\* C36: the sender under the mutex, through which the facade sends, is
\* replaced only by the supervisor's restart step, which follows a worker
\* failure and nothing else; a worker that ended cleanly ends the supervisor.
C36_SenderSwappedOnlyOnRestart ==
    /\ [][mutexChan' # mutexChan =>
            /\ sup = "swap" /\ sup' = "spawn"
            /\ mutexChan' = chanGen + 1
            /\ UNCHANGED <<command_sender, shutdown_sender, items, posts>>]_vars
    /\ [][(sup' = "swap" /\ sup # "swap") => (sup = "await" /\ wstate = "Panicked")]_vars
    /\ [][(sup = "await" /\ wstate = "Terminated" /\ sup' # sup) =>
            (sup' = "done" /\ mutexChan' = mutexChan)]_vars
    /\ [][(Send \/ Flush \/ Close \/ Terminate \/ ShutdownCommand \/ ShutdownJoin)
            => mutexChan' = mutexChan]_vars

\* The worker failed, and the restart step has put the second channel's
\* sender under the mutex while the facade still holds its handle.
C36_Witness ==
    /\ panics = 1
    /\ sup = "spawn"
    /\ mutexChan = 2
    /\ command_sender
    /\ fpc = "ready"

\* C37: once the one-shot has been fired, a supervisor that awaits its worker
\* or has ended never goes back to making a channel and spawning: the restart
\* that was under way when the signal was fired is the only spawn that can
\* follow it, whenever the worker fails and whenever the supervisor polls; and
\* under fair scheduling the supervisor is past that spawn for good.
C37_AtMostOneSpawnAfterSignal ==
    /\ [][(ShutdownRequested /\ sup \in {"await", "done"}) => sup' \in {"await", "done"}]_vars
    /\ [][(ShutdownRequested /\ chanGen' # chanGen) => (sup = "swap" /\ chanGen' = chanGen + 1)]_vars
    /\ [](chanGen <= panics + 1)
    /\ ShutdownRequested ~> [](sup \in {"await", "done"})

\* The shutdown call sent its signal and its command before the restart step,
\* so the command went to the old channel; the one further worker has been
\* spawned on the new channel since.
C37_Witness ==
    /\ oneshot = "sent"
    /\ fpc = "join"
    /\ chanGen = 2
    /\ sup = "await"
    /\ wstate = "new"
    /\ cmds = <<>>

\* C38: once close or terminate has been called and the facade is free again,
\* the facade holds no command sender, the supervisor has ended and no worker
\* runs; flush sends no command; send still pushes its envelope to the queue
\* and changes nothing else; and no request is started any more, so that
\* envelope is never transmitted.
C38_AfterShutdownFlushAndSendAreInert ==
    /\ []((ShutdownRequested /\ fpc = "ready")
            => (~command_sender /\ sup = "done" /\ ~WorkerRunning))
    /\ [][(Flush /\ ShutdownRequested) => UNCHANGED <<cmds, items, posts, wstate, sup>>]_vars
    /\ [][(Send /\ ShutdownRequested) =>
            /\ items' = Append(items, nextEnv)
            /\ UNCHANGED <<cmds, posts, wstate, sup, batch>>]_vars
    /\ [][sup = "done" => (posts' = posts /\ sup' = "done" /\ wstate' = wstate)]_vars
    /\ []((ShutdownRequested /\ fpc = "ready") => \A e \in Range(items) : ~Transmitted(e))

\* close() drained the queue and returned; the envelope in the queue was sent
\* after that and no one is left to submit it.
C38_Witness ==
    /\ scn.kind = "Close"
    /\ fpc = "ready"
    /\ sup = "done"
    /\ ~command_sender
    /\ items # <<>>
    /\ Range(items) \cap Range(scn.q) = {}
    /\ scn.q # <<>>

=============================================================================
